---- MODULE Spec2Model ----
(***************************************************************************)
(* Radio synchronisation subsystem of grouptherapy: the schedule store,    *)
(* the metadata resolver (GET /api/radio/metadata), the SSE broadcaster    *)
(* (GET /api/radio/stream-state, broadcastToSSEClients), the schedule      *)
(* mutation endpoints and the client playback reconciler (RadioProvider).  *)
(*                                                                         *)
(* Time is in milliseconds.  Every await of a handler is a scheduling      *)
(* point: a handler is one action per stretch of code between two awaits.  *)
(* A store lookup that rejects is the input fail = TRUE of the action.     *)
(* listenerCount, titles and show lookups are display data and left out.   *)
(***************************************************************************)
EXTENDS Integers, Sequences, FiniteSets, TLC

VARIABLES now, radioSchedule, nextId, radioAssets, sseClients, chanState,
          conn, outbox, adminReq, metaReq, rec,
          loginAttempts, sessions, issued, loggedOut, loginReq, authReq,
          apiIndex, apiLazy

vars == <<now, radioSchedule, nextId, radioAssets, sseClients, chanState,
          conn, outbox, adminReq, metaReq, rec,
          loginAttempts, sessions, issued, loggedOut, loginReq, authReq,
          apiIndex, apiLazy>>

\* the login attempts table, the session store, the tokens handed out and
\* logged out, and the authentication requests in flight
auth == <<loginAttempts, sessions, issued, loggedOut, loginReq, authReq>>

\* the module state of the two serverless entry points
lambda == <<apiIndex, apiLazy>>

(* ---------------------------- bounds ----------------------------------- *)
MaxTicks == 2
MaxItems == 2
MaxAssets == 1
MaxDuration == 1
NumChannels == 2
MaxOutbox == 1
MaxHeartbeats == 1
MaxFetches == 1
MaxInbox == 1
MaxRetryTimers == 1
MaxPosition == 3
MaxVolume == 1

(* ------------------------- program constants --------------------------- *)
MsPerSecond == 1000
DEMO_STREAM_URL == 0
DriftToleranceSeconds == 2
NumDemoTracks == 3

TickMs == MsPerSecond \div 2
Times == {t * TickMs : t \in 0..MaxTicks}
AssetIds == 1..MaxAssets
ItemIds == 1..MaxItems
Durations == 0..MaxDuration
Channels == 1..NumChannels
demoTracks == 1..NumDemoTracks

NoItem == [id |-> 0, assetId |-> 0, scheduledStart |-> 0, scheduledEnd |-> 0]
NoAsset == [id |-> 0, audioUrl |-> DEMO_STREAM_URL, durationSeconds |-> 0]
NoMsg == [type |-> "none"]
\* an event whose data JSON.parse cannot parse
MalformedMessage == [type |-> "malformed"]
NoChannel == 0
NoTime == -1

Min(a, b) == IF a <= b THEN a ELSE b
Max(a, b) == IF a >= b THEN a ELSE b
Floor(a, b) == a \div b
Range(s) == {s[i] : i \in 1..Len(s)}

(* ------------------------------ storage -------------------------------- *)
\* SELECT ... WHERE scheduledStart <= now AND scheduledEnd >= now
\* ORDER BY scheduledStart DESC LIMIT 1: the rows the query may return
\* (rows with the same scheduledStart come in an order the database picks).
getCurrentScheduledItemAsc(items, t) ==
  LET matching == {it \in items : it.scheduledStart <= t /\ it.scheduledEnd >= t}
  IN {it \in matching : \A o \in matching : it.scheduledStart <= o.scheduledStart}

getCurrentScheduledItem(items, t) ==
  LET matching == {it \in items : it.scheduledStart <= t /\ it.scheduledEnd >= t}
  IN {it \in matching : \A o \in matching : o.scheduledStart <= it.scheduledStart}

\* the value the awaited call resolves to: a row, or undefined
currentScheduleResults(items, t) ==
  IF getCurrentScheduledItem(items, t) = {} THEN {NoItem}
  ELSE getCurrentScheduledItem(items, t)

\* the half-open reading of the window, [scheduledStart, scheduledEnd)
inWindow(it, t) == it.scheduledStart <= t /\ t < it.scheduledEnd
inSomeWindow(items, t) == \E it \in items : inWindow(it, t)

getRadioAssetById(assets, id) ==
  IF \E a \in assets : a.id = id
  THEN CHOOSE a \in assets : a.id = id
  ELSE NoAsset

(* ------------------------- position calculator ------------------------- *)
positionSecondsUnclamped(nowMs, startedAt, durationSeconds) ==
  Floor(nowMs - startedAt, MsPerSecond)

\* Math.min(Math.floor((now - startedAt) / 1000), asset.durationSeconds)
positionSeconds(nowMs, startedAt, durationSeconds) ==
  Min(Floor(nowMs - startedAt, MsPerSecond), durationSeconds)

assetPayload(asset) ==
  [id |-> asset.id, audioUrl |-> asset.audioUrl,
   durationSeconds |-> asset.durationSeconds]

(* --------------------------- metadata endpoint ------------------------- *)
fallbackBody(track) ==
  [isScheduled |-> FALSE, track |-> track, streamUrl |-> DEMO_STREAM_URL]

scheduledBody(currentSchedule, asset, nowMs) ==
  [isScheduled |-> TRUE,
   currentAsset |-> assetPayload(asset),
   streamUrl |-> asset.audioUrl,
   startedAt |-> currentSchedule.scheduledStart,
   durationSeconds |-> asset.durationSeconds,
   positionSeconds |-> positionSeconds(nowMs, currentSchedule.scheduledStart,
                                       asset.durationSeconds)]

errorResponse(code) == [status |-> code, body |-> [message |-> "error"]]

metadataResponseStrict(currentSchedule, asset, nowMs, track) ==
  IF currentSchedule.id # 0
  THEN IF asset.id # 0
       THEN [status |-> 200, body |-> scheduledBody(currentSchedule, asset, nowMs)]
       ELSE errorResponse(500)
  ELSE [status |-> 200, body |-> fallbackBody(track)]

\* the body of the try block once the lookups have resolved
metadataResponse(currentSchedule, asset, nowMs, track) ==
  IF currentSchedule.id # 0 /\ asset.id # 0
  THEN [status |-> 200, body |-> scheduledBody(currentSchedule, asset, nowMs)]
  ELSE [status |-> 200, body |-> fallbackBody(track)]

\* inWindow is a history field: whether, when the schedule was queried, some
\* stored item had scheduledStart <= now < scheduledEnd
\* threw: a store lookup of the handler rejected
IdleMeta ==
  [pc |-> "idle", currentSchedule |-> NoItem, inWindow |-> FALSE,
   threw |-> FALSE, response |-> errorResponse(0)]

(* ------------------------------- Init ---------------------------------- *)
\* threw: a lookup of the initial-state task rejected (caught and logged)
\* heartbeat: the setInterval handle is active; heartbeats: keepalives written
\* writeAfterClose is a history field: res.write was called on the response
\* after its close event
IdleConn == [pc |-> "none", currentSchedule |-> NoItem, threw |-> FALSE,
             heartbeat |-> FALSE, heartbeats |-> 0, writeAfterClose |-> FALSE]

\* scheduleItem is the handler's local while it runs.  The other fields are
\* its outcome: stored (the store call resolved), status (of the response),
\* and of its broadcast the registry before and after, the channels whose
\* write throws (failing), the channels written and the one that threw.
IdleAdmin == [op |-> "none", pc |-> "idle", scheduleItem |-> NoItem,
              stored |-> FALSE, status |-> 0,
              broadcast |-> FALSE, registry |-> <<>>, failing |-> {},
              written |-> {}, thrower |-> NoChannel, registryAfter |-> <<>>]

finish(req, code) == [req EXCEPT !.pc = "done", !.scheduleItem = NoItem,
                                 !.status = code]

\* RadioProvider after its mount effects: initAudio(DEMO_STREAM_URL) has
\* created the paused audio element (audio.ref: audioRef.current is set),
\* connectSSE() the EventSource, whose request the server has not seen yet,
\* and the poll effect has sent its first request and started its interval.
\* channel is the server-side response the EventSource is attached to,
\* inbox the message events queued for its onmessage, esClosure what that
\* handler closed over, retry the pending setTimeout(connectSSE, 5000), each
\* with the closure of its connectSSE, fetches the fetchMetadata calls in
\* flight (pc "fetch": awaiting fetch, "json": awaiting response.json()).
MountedReconciler ==
  [isScheduled |-> FALSE, isLive |-> TRUE, currentStreamUrl |-> DEMO_STREAM_URL,
   currentAsset |-> NoAsset, startedAt |-> NoTime,
   audio |-> [src |-> DEMO_STREAM_URL, paused |-> TRUE, currentTime |-> 0,
              ref |-> TRUE, loads |-> 0, volume |-> 0],
   es |-> "connecting", channel |-> NoChannel, sseConnected |-> FALSE,
   esClosure |-> [currentStreamUrl |-> DEMO_STREAM_URL, currentAsset |-> NoAsset,
                  isLive |-> TRUE, volume |-> 0],
   inbox |-> <<>>, retry |-> <<>>,
   fetches |-> <<[k |-> [currentStreamUrl |-> DEMO_STREAM_URL,
                         currentAsset |-> NoAsset, isLive |-> TRUE, volume |-> 0],
                  pc |-> "fetch", data |-> NoMsg]>>,
   pollTimer |-> TRUE, progressTimer |-> FALSE,
   isPlaying |-> FALSE, progress |-> 0, volume |-> 0, parseErrors |-> FALSE,
   mounted |-> TRUE]

\* bounds of the authentication and serverless parts
MaxAuthTicks == 3
MaxAttempts == 11
MaxLogins == 6
MaxSessions == 2
NumRequests == 3

Requests == 1..NumRequests
NoToken ==
  [kind |-> "none", sessionId |-> 0, username |-> "", iat |-> 0, exp |-> 0,
   signed |-> FALSE]

\* the empty login_attempts table: rows [username, attemptedAt, successful],
\* each with the number of times it was inserted
NoAttempts == [row \in {} |-> 0]

\* no login request in flight; no protected request made yet
\* locked, checkedAt, threw and lockoutAt are kept for the properties: whether
\* the username had MAX_LOGIN_ATTEMPTS recent failures when the rate limit
\* was checked, when that was, whether a store call was rejected, and when a
\* failed attempt last brought the username to the limit
IdleLogin ==
  [pc |-> "idle", module |-> "sessions", username |-> "", password |-> "",
   limited |-> FALSE, locked |-> FALSE, checkedAt |-> NoTime, threw |-> FALSE,
   status |-> 0, token |-> NoToken, lockoutAt |-> NoTime]

IdleAuth ==
  [pc |-> "idle", route |-> "", module |-> "sessions", token |-> NoToken,
   status |-> 0, ran |-> FALSE]

\* api/index.ts after module load: let handler (undefined); the counters
\* record the createApp and initializeAppForServerless calls
ColdIndex ==
  [handler |-> FALSE, created |-> 0, started |-> 0, completed |-> 0,
   early |-> FALSE, req |-> [q \in Requests |-> "cold"]]

\* part_000 after module load: app = null, initialized = false, the two
\* lazily imported functions null
ColdLazy ==
  [imported |-> FALSE, app |-> FALSE, initialized |-> FALSE,
   created |-> 0, started |-> 0, completed |-> 0,
   early |-> FALSE, req |-> [q \in Requests |-> "cold"]]

Init ==
  /\ now = 0
  /\ radioSchedule = {}
  /\ nextId = 1
  /\ radioAssets = {}
  /\ sseClients = <<>>
  /\ chanState = [c \in Channels |-> "free"]
  /\ conn = [c \in Channels |-> IdleConn]
  /\ outbox = [c \in Channels |-> <<>>]
  /\ adminReq = IdleAdmin
  /\ metaReq = IdleMeta
  /\ rec = MountedReconciler
  /\ loginAttempts = NoAttempts
  /\ sessions = {}
  /\ issued = {}
  /\ loggedOut = {}
  /\ loginReq = IdleLogin
  /\ authReq = IdleAuth
  /\ apiIndex = ColdIndex
  /\ apiLazy = ColdLazy

(* ------------------------------- clock --------------------------------- *)
Tick ==
  /\ now + TickMs <= MaxTicks * TickMs
  /\ now' = now + TickMs
  /\ UNCHANGED <<auth, lambda, radioSchedule, nextId, radioAssets, sseClients, chanState,
                 conn, outbox, adminReq, metaReq, rec>>

(* ---------------------------- asset routes ----------------------------- *)
\* POST /api/radio/assets
CreateRadioAsset(a, d) ==
  /\ ~ \E x \in radioAssets : x.id = a
  /\ radioAssets' = radioAssets \cup {[id |-> a, audioUrl |-> a, durationSeconds |-> d]}
  /\ UNCHANGED <<auth, lambda, now, radioSchedule, nextId, sseClients, chanState,
                 conn, outbox, adminReq, metaReq, rec>>

\* DELETE /api/radio/assets/:id
DeleteRadioAsset(a) ==
  /\ \E x \in radioAssets : x.id = a
  /\ radioAssets' = {x \in radioAssets : x.id # a}
  /\ UNCHANGED <<auth, lambda, now, radioSchedule, nextId, sseClients, chanState,
                 conn, outbox, adminReq, metaReq, rec>>

(* ------------------------- GET /api/radio/metadata --------------------- *)
\* from the request to the first await resolving: getCurrentScheduledItem();
\* with no current item the fallback answer follows in the same stretch
MetadataQuery(fail, track) ==
  /\ metaReq.pc \in {"idle", "done"}
  /\ \E cur \in currentScheduleResults(radioSchedule, now) :
       LET req == [IdleMeta EXCEPT !.inWindow = inSomeWindow(radioSchedule, now)]
       IN metaReq' =
            IF fail
            THEN [req EXCEPT !.pc = "done", !.threw = TRUE,
                             !.response = errorResponse(500)]
            ELSE IF cur.id # 0
            THEN [req EXCEPT !.pc = "asset", !.currentSchedule = cur]
            ELSE [req EXCEPT !.pc = "done",
                             !.response = metadataResponse(cur, NoAsset, now, track)]
  /\ UNCHANGED <<auth, lambda, now, radioSchedule, nextId, radioAssets, sseClients, chanState,
                 conn, outbox, adminReq, rec>>

\* getRadioAssetById() resolving, Date.now(), res.json(...)
MetadataRespond(fail, track) ==
  /\ metaReq.pc = "asset"
  /\ LET asset == getRadioAssetById(radioAssets, metaReq.currentSchedule.assetId)
     IN metaReq' =
          IF fail
          THEN [metaReq EXCEPT !.pc = "done", !.threw = TRUE,
                               !.response = errorResponse(500)]
          ELSE [metaReq EXCEPT !.pc = "done",
                               !.response = metadataResponse(metaReq.currentSchedule,
                                                             asset, now, track)]
  /\ UNCHANGED <<auth, lambda, now, radioSchedule, nextId, radioAssets, sseClients, chanState,
                 conn, outbox, adminReq, rec>>

(* ----------------------------- broadcaster ----------------------------- *)
\* res.write on a channel whose transport has failed throws
writeThrows(c) == chanState[c] = "broken"

\* the bytes reach the listener only while the connection is open
writeTo(box, c, msg) ==
  IF chanState[c] = "open" THEN [box EXCEPT ![c] = Append(box[c], msg)] ELSE box

\* sseClients.forEach(client => client.write(message)): the Set is walked in
\* insertion order and the first write that throws ends the walk
broadcastToSSEClients(clients) ==
  LET throwing == {i \in 1..Len(clients) : writeThrows(clients[i])}
      k == IF throwing = {} THEN Len(clients) + 1
           ELSE CHOOSE i \in throwing : \A j \in throwing : i <= j
  IN [written |-> {clients[i] : i \in 1..(k - 1)},
      thrower |-> IF throwing = {} THEN NoChannel ELSE clients[k],
      clients |-> clients]

deliver(box, written, msg) ==
  [c \in Channels |-> IF c \in written /\ chanState[c] = "open"
                      THEN Append(box[c], msg) ELSE box[c]]

Remove(s, c) == SelectSeq(s, LAMBDA x : x # c)

(* --------------------- GET /api/radio/stream-state --------------------- *)
liveStateMsg == [type |-> "state", isScheduled |-> FALSE, streamUrl |-> DEMO_STREAM_URL]

scheduledStateMsg(currentSchedule, asset, nowMs) ==
  [type |-> "state",
   isScheduled |-> TRUE,
   currentAsset |-> assetPayload(asset),
   streamUrl |-> asset.audioUrl,
   startedAt |-> currentSchedule.scheduledStart,
   positionSeconds |-> positionSeconds(nowMs, currentSchedule.scheduledStart,
                                       asset.durationSeconds)]

\* the handler up to the first await of the initial-state task
accept(c) ==
  /\ chanState[c] = "free"
  /\ chanState' = [chanState EXCEPT ![c] = "open"]
  /\ sseClients' = Append(sseClients, c)
  /\ conn' = [conn EXCEPT ![c] = [IdleConn EXCEPT !.pc = "schedule",
                                                   !.heartbeat = TRUE]]
  /\ UNCHANGED <<auth, lambda, now, radioSchedule, nextId, radioAssets, outbox, adminReq, metaReq>>

\* the request of a listener other than the modelled one
Connect(c) == accept(c) /\ UNCHANGED rec

\* getCurrentScheduledItem() resolving; without a current item the live
\* state is written at once
InitialStateQuery(c, fail) ==
  /\ conn[c].pc = "schedule"
  /\ \E cur \in currentScheduleResults(radioSchedule, now) :
       IF fail
       THEN /\ conn' = [conn EXCEPT ![c].pc = "done", ![c].threw = TRUE]
            /\ UNCHANGED outbox
       ELSE IF cur.id # 0
       THEN /\ conn' = [conn EXCEPT ![c].pc = "asset", ![c].currentSchedule = cur]
            /\ UNCHANGED outbox
       ELSE /\ conn' = [conn EXCEPT ![c].pc = "done",
                                     ![c].writeAfterClose = (chanState[c] = "closed")]
            /\ outbox' = IF writeThrows(c) THEN outbox
                         ELSE writeTo(outbox, c, liveStateMsg)
  /\ UNCHANGED <<auth, lambda, now, radioSchedule, nextId, radioAssets, sseClients, chanState,
                 adminReq, metaReq, rec>>

\* getRadioAssetById() resolving; the state is written only if the asset
\* exists; a throw (lookup or write) is caught and logged
InitialStateSend(c, fail) ==
  /\ conn[c].pc = "asset"
  /\ LET asset == getRadioAssetById(radioAssets, conn[c].currentSchedule.assetId)
     IN /\ conn' = [conn EXCEPT ![c].pc = "done", ![c].threw = fail,
                                  ![c].writeAfterClose =
                                    (~fail /\ asset.id # 0 /\ chanState[c] = "closed")]
        /\ outbox' = IF fail \/ asset.id = 0 \/ writeThrows(c) THEN outbox
                     ELSE writeTo(outbox, c,
                                  scheduledStateMsg(conn[c].currentSchedule, asset, now))
  /\ UNCHANGED <<auth, lambda, now, radioSchedule, nextId, radioAssets, sseClients, chanState,
                 adminReq, metaReq, rec>>

\* the transport of an open channel fails; its close event is still to come
ChannelFail(c) ==
  /\ chanState[c] = "open"
  /\ chanState' = [chanState EXCEPT ![c] = "broken"]
  /\ UNCHANGED <<auth, lambda, now, radioSchedule, nextId, radioAssets, sseClients,
                 conn, outbox, adminReq, metaReq, rec>>

\* req.on("close"): clearInterval(heartbeat); sseClients.delete(res)
Close(c) ==
  /\ chanState[c] \in {"open", "broken"}
  /\ chanState' = [chanState EXCEPT ![c] = "closed"]
  /\ sseClients' = Remove(sseClients, c)
  /\ conn' = [conn EXCEPT ![c].heartbeat = FALSE]
  /\ UNCHANGED <<auth, lambda, now, radioSchedule, nextId, radioAssets,
                 outbox, adminReq, metaReq, rec>>

\* the setInterval callback: res.write(":heartbeat\n\n"), a comment line the
\* EventSource of the listener drops; the 30 s period is not modelled, the
\* callback may run whenever the interval is active
Heartbeat(c) ==
  /\ conn[c].heartbeat
  /\ conn[c].heartbeats < MaxHeartbeats
  /\ conn' = [conn EXCEPT ![c].heartbeats = @ + 1,
                          ![c].writeAfterClose = @ \/ chanState[c] = "closed"]
  /\ UNCHANGED <<auth, lambda, now, radioSchedule, nextId, radioAssets, sseClients, chanState,
                 outbox, adminReq, metaReq, rec>>

(* ------------------------ schedule mutation routes --------------------- *)
Windows == {w \in Times \X Times : w[1] < w[2]}

adminFree ==
  /\ adminReq.pc \in {"idle", "done"}
  /\ \A c \in Channels : Len(outbox[c]) < MaxOutbox

\* the synchronous tail of a mutation handler: broadcastToSSEClients(msg)
\* inside the try, then res.json(...); a throw lands in catch -> 400
broadcastAndRespond(req, msg) ==
  LET b == broadcastToSSEClients(sseClients)
  IN /\ outbox' = deliver(outbox, b.written, msg)
     /\ sseClients' = b.clients
     /\ adminReq' = finish([req EXCEPT !.broadcast = TRUE,
                                       !.registry = sseClients,
                                       !.failing = {c \in Range(sseClients) : writeThrows(c)},
                                       !.written = b.written,
                                       !.thrower = b.thrower,
                                       !.registryAfter = b.clients],
                           IF b.thrower = NoChannel THEN 200 ELSE 400)

\* POST /api/radio/schedule up to createRadioSchedule(req.body) resolving
PostSchedule(assetId, w, fail) ==
  /\ adminFree
  /\ nextId <= MaxItems
  /\ IF fail
     THEN /\ adminReq' = finish([IdleAdmin EXCEPT !.op = "create"], 400)
          /\ UNCHANGED <<radioSchedule, nextId>>
     ELSE LET item == [id |-> nextId, assetId |-> assetId,
                       scheduledStart |-> w[1], scheduledEnd |-> w[2]]
          IN /\ radioSchedule' = radioSchedule \cup {item}
             /\ nextId' = nextId + 1
             /\ adminReq' = [IdleAdmin EXCEPT !.op = "create", !.pc = "asset",
                                              !.scheduleItem = item, !.stored = TRUE]
  /\ UNCHANGED <<auth, lambda, now, radioAssets, sseClients, chanState, conn, outbox, metaReq, rec>>

\* getRadioAssetById(scheduleItem.assetId) resolving, the broadcast if the
\* asset exists, res.json(scheduleItem)
PostScheduleBroadcast(fail) ==
  /\ adminReq.op = "create" /\ adminReq.pc = "asset"
  /\ LET asset == getRadioAssetById(radioAssets, adminReq.scheduleItem.assetId)
     IN IF fail
        THEN /\ adminReq' = finish(adminReq, 400)
             /\ UNCHANGED <<outbox, sseClients>>
        ELSE IF asset.id # 0
        THEN broadcastAndRespond(adminReq,
                                 [type |-> "schedule_update",
                                  scheduleItem |-> adminReq.scheduleItem,
                                  asset |-> assetPayload(asset)])
        ELSE /\ adminReq' = finish(adminReq, 200)
             /\ UNCHANGED <<outbox, sseClients>>
  /\ UNCHANGED <<auth, lambda, now, radioSchedule, nextId, radioAssets, chanState, conn, metaReq, rec>>

\* PATCH /api/radio/schedule/:id up to updateRadioSchedule(id, body) resolving;
\* "Radio schedule not found" and a store failure both reject
PatchSchedule(id, assetId, w, fail) ==
  /\ adminFree
  /\ IF fail \/ ~ \E it \in radioSchedule : it.id = id
     THEN /\ adminReq' = finish([IdleAdmin EXCEPT !.op = "update"], 400)
          /\ UNCHANGED radioSchedule
     ELSE LET item == [id |-> id, assetId |-> assetId,
                       scheduledStart |-> w[1], scheduledEnd |-> w[2]]
          IN /\ radioSchedule' = {it \in radioSchedule : it.id # id} \cup {item}
             /\ adminReq' = [IdleAdmin EXCEPT !.op = "update", !.pc = "broadcast",
                                              !.scheduleItem = item, !.stored = TRUE]
  /\ UNCHANGED <<auth, lambda, now, nextId, radioAssets, sseClients, chanState, conn, outbox, metaReq, rec>>

PatchScheduleBroadcast ==
  /\ adminReq.op = "update" /\ adminReq.pc = "broadcast"
  /\ broadcastAndRespond(adminReq, [type |-> "schedule_update",
                                    scheduleItem |-> adminReq.scheduleItem])
  /\ UNCHANGED <<auth, lambda, now, radioSchedule, nextId, radioAssets, chanState, conn, metaReq, rec>>

\* DELETE /api/radio/schedule/:id up to deleteRadioSchedule(id) resolving;
\* deleting an id that is not stored resolves too
DeleteSchedule(id, fail) ==
  /\ adminFree
  /\ IF fail
     THEN /\ adminReq' = finish([IdleAdmin EXCEPT !.op = "delete"], 400)
          /\ UNCHANGED radioSchedule
     ELSE /\ radioSchedule' = {it \in radioSchedule : it.id # id}
          /\ adminReq' = [IdleAdmin EXCEPT !.op = "delete", !.pc = "broadcast",
                                           !.scheduleItem = [NoItem EXCEPT !.id = id],
                                           !.stored = TRUE]
  /\ UNCHANGED <<auth, lambda, now, nextId, radioAssets, sseClients, chanState, conn, outbox, metaReq, rec>>

DeleteScheduleBroadcast ==
  /\ adminReq.op = "delete" /\ adminReq.pc = "broadcast"
  /\ broadcastAndRespond(adminReq, [type |-> "schedule_deleted",
                                    scheduleId |-> adminReq.scheduleItem.id])
  /\ UNCHANGED <<auth, lambda, now, radioSchedule, nextId, radioAssets, chanState, conn, metaReq, rec>>

(* ---------------------- client playback reconciler --------------------- *)
Abs(x) == IF x < 0 THEN -x ELSE x
Has(data, f) == f \in DOMAIN data

\* what the callbacks of one render close over: the dependencies of
\* handleSSEMessage and fetchMetadata (volume through initAudio)
closure(r) ==
  [currentStreamUrl |-> r.currentStreamUrl, currentAsset |-> r.currentAsset,
   isLive |-> r.isLive, volume |-> r.volume]

initAudioNoResume(audio, streamUrl, playOk) ==
  IF audio.ref
  THEN [audio EXCEPT !.src = streamUrl, !.paused = TRUE, !.currentTime = 0,
                     !.loads = (@ + 1) % 2]
  ELSE [src |-> streamUrl, paused |-> TRUE, currentTime |-> 0, ref |-> TRUE,
        loads |-> (audio.loads + 1) % 2, volume |-> audio.volume]

\* initAudio: with the audio element in place pause, switch src, load, and
\* play again if it was playing (play() may reject: playOk = FALSE);
\* without one (audioRef.current is null) create a paused element.
\* loads is a history field: the number of loads of a source, modulo 2
initAudio(audio, streamUrl, playOk) ==
  IF audio.ref
  THEN [audio EXCEPT !.src = streamUrl, !.paused = ~(~audio.paused /\ playOk),
                     !.currentTime = 0, !.loads = (@ + 1) % 2]
  ELSE [src |-> streamUrl, paused |-> TRUE, currentTime |-> 0, ref |-> TRUE,
        loads |-> (audio.loads + 1) % 2, volume |-> audio.volume]

\* currentAsset and isLive are the values the callback closed over
syncPlaybackPosition(audio, currentAsset, isLive, position) ==
  IF audio.ref /\ currentAsset.id # 0 /\ ~isLive
  THEN LET targetPosition == Min(position, currentAsset.durationSeconds)
       IN IF Abs(audio.currentTime - targetPosition) > DriftToleranceSeconds
          THEN [audio EXCEPT !.currentTime = targetPosition]
          ELSE audio
  ELSE audio

isScheduledMessage(data) ==
  /\ Has(data, "isScheduled") /\ data.isScheduled
  /\ Has(data, "currentAsset")

dropMessageAndClose(r) ==
  [r EXCEPT !.parseErrors = TRUE, !.es = "closed", !.inbox = <<>>]

\* the catch of handleSSEMessage: JSON.parse threw, console.error
\* (parseErrors is a history field: an error was logged)
dropMessage(r) == [r EXCEPT !.parseErrors = TRUE]

scheduleDeletedKeepSource(r, playOk) ==
  [r EXCEPT !.isScheduled = FALSE, !.isLive = TRUE]

\* the schedule_deleted branch of handleSSEMessage
scheduleDeleted(r, playOk) ==
  [r EXCEPT !.isScheduled = FALSE,
            !.isLive = TRUE,
            !.currentStreamUrl = DEMO_STREAM_URL,
            !.audio = initAudio(r.audio, DEMO_STREAM_URL, playOk)]

\* handleSSEMessage on a parsed message: r is the state before the message,
\* r.esClosure what the handler of the EventSource closed over
handleSSEMessage(r, data, playOk) ==
  LET k == r.esClosure
  IN IF data = MalformedMessage
     THEN dropMessage(r)
     ELSE IF data.type \in {"state", "schedule_update"}
     THEN IF isScheduledMessage(data)
          THEN LET loaded == IF data.streamUrl # k.currentStreamUrl
                             THEN initAudio(r.audio, data.streamUrl, playOk)
                             ELSE r.audio
               IN [r EXCEPT !.isScheduled = TRUE,
                            !.isLive = FALSE,
                            !.currentAsset = data.currentAsset,
                            !.currentStreamUrl = IF data.streamUrl # k.currentStreamUrl
                                                 THEN data.streamUrl ELSE @,
                            !.startedAt = IF Has(data, "startedAt") THEN data.startedAt ELSE @,
                            !.audio = IF Has(data, "positionSeconds")
                                      THEN syncPlaybackPosition(loaded, k.currentAsset, k.isLive,
                                                                data.positionSeconds)
                                      ELSE loaded]
          ELSE [r EXCEPT !.isScheduled = FALSE,
                         !.isLive = TRUE,
                         !.currentAsset = NoAsset,
                         !.currentStreamUrl = IF DEMO_STREAM_URL # k.currentStreamUrl
                                              THEN DEMO_STREAM_URL ELSE @,
                         !.audio = IF DEMO_STREAM_URL # k.currentStreamUrl
                                   THEN initAudio(r.audio, DEMO_STREAM_URL, playOk)
                                   ELSE @]
     ELSE IF data.type = "schedule_deleted"
     THEN scheduleDeleted(r, playOk)
     ELSE r

\* the state values a message replaces by objects made from the message
\* (setCurrentAsset(data.currentAsset), setStartedAt(new Date(...)))
messageFresh(data) ==
  IF data.type \in {"state", "schedule_update"} /\ isScheduledMessage(data)
  THEN {"currentAsset"} \cup (IF Has(data, "startedAt") THEN {"startedAt"} ELSE {})
  ELSE {}

\* fetchMetadata after its two awaits, on the body of an ok response; k is
\* what this fetchMetadata closed over
fetchMetadata(r, k, data, playOk) ==
  IF isScheduledMessage(data)
  THEN LET loaded == IF data.streamUrl # k.currentStreamUrl
                     THEN initAudio(r.audio, data.streamUrl, playOk)
                     ELSE r.audio
       IN [r EXCEPT !.isScheduled = TRUE,
                    !.isLive = FALSE,
                    !.currentAsset = data.currentAsset,
                    !.currentStreamUrl = IF data.streamUrl # k.currentStreamUrl
                                         THEN data.streamUrl ELSE @,
                    !.audio = IF Has(data, "positionSeconds")
                              THEN syncPlaybackPosition(loaded, k.currentAsset, k.isLive,
                                                        data.positionSeconds)
                              ELSE loaded]
  ELSE [r EXCEPT !.isScheduled = FALSE,
                 !.isLive = TRUE,
                 !.currentStreamUrl = IF DEMO_STREAM_URL # k.currentStreamUrl
                                      THEN DEMO_STREAM_URL ELSE @,
                 !.audio = IF DEMO_STREAM_URL # k.currentStreamUrl
                           THEN initAudio(r.audio, DEMO_STREAM_URL, playOk)
                           ELSE @]

metadataFresh(data) == IF isScheduledMessage(data) THEN {"currentAsset"} ELSE {}

\* connectSSE: close the EventSource in place and construct a new one, whose
\* onmessage is the handleSSEMessage of closure k; a constructor that throws
\* is caught and logged
connectSSE(r, k, throws) ==
  IF throws
  THEN [r EXCEPT !.es = "closed", !.channel = NoChannel, !.inbox = <<>>,
                 !.sseConnected = FALSE]
  ELSE [r EXCEPT !.es = "connecting", !.channel = NoChannel, !.inbox = <<>>,
                 !.esClosure = k]

\* the first lines of fetchMetadata: return if the push channel is
\* connected, else send the request (at most MaxFetches are in flight)
startFetch(r, k) ==
  IF r.sseConnected \/ Len(r.fetches) >= MaxFetches THEN r
  ELSE [r EXCEPT !.fetches = Append(@, [k |-> k, pc |-> "fetch", data |-> NoMsg])]

updateProgressUnclamped(startedAt, currentAsset, nowMs) ==
  Floor(nowMs - startedAt, MsPerSecond)

\* Math.min(Math.floor((now - startTime) / 1000), currentAsset.durationSeconds)
updateProgress(startedAt, currentAsset, nowMs) ==
  Min(Floor(nowMs - startedAt, MsPerSecond), currentAsset.durationSeconds)

\* the condition under which the progress effect starts its interval
progressRuns(r) == r.isScheduled /\ r.startedAt # NoTime /\ r.currentAsset.id # 0

\* the render after a handler took the state from r to r2, and the effects
\* whose dependencies changed (fresh: state values replaced by new objects):
\* a new handleSSEMessage closes the EventSource and connects again, a new
\* fetchMetadata restarts the poll interval and polls at once, the progress
\* effect restarts its interval and reports at once.  State updates of an
\* unmounted component are dropped; what a handler did to the audio
\* element stays.
render(r, r2, fresh, nowMs) ==
  IF ~r.mounted THEN [r2 EXCEPT !.isScheduled = r.isScheduled,
                                !.isLive = r.isLive,
                                !.currentAsset = r.currentAsset,
                                !.currentStreamUrl = r.currentStreamUrl,
                                !.startedAt = r.startedAt]
  ELSE LET callbacks == closure(r2) # closure(r) \/ "currentAsset" \in fresh
           progressDeps == \/ r2.isScheduled # r.isScheduled
                           \/ r2.currentAsset # r.currentAsset
                           \/ r2.startedAt # r.startedAt
                           \/ fresh # {}
           connected == IF callbacks
                        THEN startFetch(connectSSE(r2, closure(r2), FALSE), closure(r2))
                        ELSE r2
       IN [connected EXCEPT
             !.progressTimer = progressRuns(r2),
             !.progress = IF progressDeps /\ progressRuns(r2)
                          THEN updateProgress(r2.startedAt, r2.currentAsset, nowMs)
                          ELSE @]

\* the server accepts the request of the reconciler's EventSource
ListenerConnect(c) ==
  /\ rec.es = "connecting" /\ rec.channel = NoChannel
  /\ accept(c)
  /\ rec' = [rec EXCEPT !.channel = c]

\* eventSource.onopen
ListenerOpen ==
  /\ rec.es = "connecting" /\ rec.channel # NoChannel
  /\ chanState[rec.channel] = "open"
  /\ rec' = [rec EXCEPT !.es = "open", !.sseConnected = TRUE]
  /\ UNCHANGED <<auth, lambda, now, radioSchedule, nextId, radioAssets, sseClients, chanState,
                 conn, outbox, adminReq, metaReq>>

\* eventSource.onmessage = handleSSEMessage on the next message of the
\* channel, then the render
HandleSSEMessage(playOk) ==
  /\ rec.es = "open" /\ rec.channel # NoChannel
  /\ outbox[rec.channel] # <<>>
  /\ LET data == Head(outbox[rec.channel])
     IN rec' = render(rec, handleSSEMessage(rec, data, playOk), messageFresh(data), now)
  /\ outbox' = [outbox EXCEPT ![rec.channel] = Tail(@)]
  /\ UNCHANGED <<auth, lambda, now, radioSchedule, nextId, radioAssets, sseClients, chanState,
                 conn, adminReq, metaReq>>

(* ------- the reconciler's events: EventSource, polls, timers, user ------ *)
\* The messages a channel can carry and the bodies the metadata endpoint can
\* return, for one item that started at PushStart and assets that last 0 or
\* MaxPosition seconds, sent up to MaxPosition seconds after the start.
PushStart == 0
PushDurations == {0, MaxPosition}
PushAssets ==
  {[id |-> a, audioUrl |-> a, durationSeconds |-> d] : a \in AssetIds, d \in PushDurations}
PushItem(a) ==
  [id |-> 1, assetId |-> a, scheduledStart |-> PushStart,
   scheduledEnd |-> PushStart + MaxPosition * MsPerSecond]
PushTimes == {PushStart + p * MsPerSecond : p \in 0..MaxPosition}

ScheduledMessages ==
  {scheduledStateMsg(PushItem(a.id), a, t) : a \in PushAssets, t \in PushTimes}

ServerMessages ==
  {liveStateMsg}
    \cup ScheduledMessages
    \cup {[type |-> "schedule_update", scheduleItem |-> PushItem(a.id),
           asset |-> assetPayload(a)] : a \in PushAssets}
    \cup {[type |-> "schedule_update", scheduleItem |-> PushItem(a)] : a \in AssetIds}
    \cup {[type |-> "schedule_deleted", scheduleId |-> 1]}

MetadataBodies ==
  {fallbackBody(1)}
    \cup {metadataResponse(PushItem(a.id), a, t, 1).body : a \in PushAssets, t \in PushTimes}

server == <<radioSchedule, nextId, radioAssets, sseClients, chanState,
            conn, outbox, adminReq, metaReq, auth, lambda>>

RemoveAt(q, i) == [j \in 1..(Len(q) - 1) |-> IF j < i THEN q[j] ELSE q[j + 1]]

\* eventSource.onopen
OnOpen ==
  /\ rec.es = "connecting"
  /\ rec' = [rec EXCEPT !.es = "open", !.sseConnected = TRUE]
  /\ UNCHANGED <<now, server>>

\* a message event of the open EventSource is queued for onmessage
MessageEvent(data) ==
  /\ rec.es = "open"
  /\ Len(rec.inbox) < MaxInbox
  /\ rec' = [rec EXCEPT !.inbox = Append(@, data)]
  /\ UNCHANGED <<now, server>>

\* eventSource.onmessage = handleSSEMessage, then the render
OnMessage(playOk) ==
  /\ rec.inbox # <<>>
  /\ LET data == Head(rec.inbox)
         r == [rec EXCEPT !.inbox = Tail(@)]
     IN rec' = render(r, handleSSEMessage(r, data, playOk), messageFresh(data), now)
  /\ UNCHANGED <<now, server>>

\* eventSource.onerror: close, and connectSSE again in 5 s
OnError ==
  /\ rec.es \in {"connecting", "open"}
  /\ Len(rec.retry) < MaxRetryTimers
  /\ rec' = [rec EXCEPT !.sseConnected = FALSE, !.es = "closed",
                        !.channel = NoChannel, !.inbox = <<>>,
                        !.retry = Append(@, rec.esClosure)]
  /\ UNCHANGED <<now, server>>

\* the setTimeout(connectSSE, 5000) of an onerror runs (the delay is not
\* modelled: the timer may run whenever it is pending)
RetryTimer(throws) ==
  /\ rec.retry # <<>>
  /\ rec' = connectSSE([rec EXCEPT !.retry = Tail(@)], Head(rec.retry), throws)
  /\ UNCHANGED <<now, server>>

\* the setInterval(fetchMetadata, METADATA_POLL_INTERVAL) callback up to its
\* first await (the period is not modelled)
PollTimer ==
  /\ rec.pollTimer
  /\ ~rec.sseConnected /\ Len(rec.fetches) < MaxFetches
  /\ rec' = startFetch(rec, closure(rec))
  /\ UNCHANGED <<now, server>>

\* await fetch(...) settles: with an ok response the call goes on to
\* response.json(), else (not ok, or rejected and caught) it ends
PollResponse(i, data, ok) ==
  /\ i \in 1..Len(rec.fetches)
  /\ rec.fetches[i].pc = "fetch"
  /\ rec' = IF ok
            THEN [rec EXCEPT !.fetches[i].pc = "json", !.fetches[i].data = data]
            ELSE [rec EXCEPT !.fetches = RemoveAt(@, i)]
  /\ UNCHANGED <<now, server>>

\* await response.json() resolves: the rest of fetchMetadata, then the render
PollApply(i, playOk) ==
  /\ i \in 1..Len(rec.fetches)
  /\ rec.fetches[i].pc = "json"
  /\ LET f == rec.fetches[i]
         r == [rec EXCEPT !.fetches = RemoveAt(@, i)]
     IN rec' = render(r, fetchMetadata(r, f.k, f.data, playOk),
                      metadataFresh(f.data), now)
  /\ UNCHANGED <<now, server>>

\* the setInterval(updateProgress, 1000) callback
ProgressTick ==
  /\ rec.progressTimer
  /\ rec' = [rec EXCEPT !.progress = updateProgress(rec.startedAt, rec.currentAsset, now)]
  /\ UNCHANGED <<now, server>>

\* a second of playback and the timeupdate listener: setProgress(currentTime)
TimeUpdate ==
  /\ rec.audio.ref /\ ~rec.audio.paused
  /\ rec.audio.currentTime < MaxPosition
  /\ rec' = [rec EXCEPT !.audio.currentTime = @ + 1,
                        !.progress = IF rec.mounted THEN rec.audio.currentTime + 1 ELSE @]
  /\ UNCHANGED <<now, server>>

\* play()
Play(playOk) ==
  /\ rec.mounted /\ rec.audio.ref
  /\ rec' = [rec EXCEPT !.audio.paused = IF playOk THEN FALSE ELSE @,
                        !.isPlaying = TRUE]
  /\ UNCHANGED <<now, server>>

\* pause()
Pause ==
  /\ rec.mounted /\ rec.audio.ref
  /\ rec' = [rec EXCEPT !.audio.paused = TRUE, !.isPlaying = FALSE]
  /\ UNCHANGED <<now, server>>

SeekAlways(time) ==
  /\ rec.mounted
  /\ rec' = IF rec.audio.ref
            THEN [rec EXCEPT !.audio.currentTime = time]
            ELSE rec
  /\ UNCHANGED <<now, server>>

\* seek(time)
Seek(time) ==
  /\ rec.mounted
  /\ rec' = IF rec.audio.ref /\ ~rec.isLive
            THEN [rec EXCEPT !.audio.currentTime = time]
            ELSE rec
  /\ UNCHANGED <<now, server>>

\* setVolume(newVolume), then the render: volume is a dependency of
\* initAudio and through it of handleSSEMessage and fetchMetadata
SetVolume(newVolume) ==
  /\ rec.mounted
  /\ LET r2 == [rec EXCEPT !.volume = newVolume,
                           !.audio.volume = IF rec.audio.ref THEN newVolume ELSE @]
     IN rec' = render(rec, r2, {}, now)
  /\ UNCHANGED <<now, server>>

UnmountKeepTimers ==
  /\ rec.mounted
  /\ rec' = [rec EXCEPT !.mounted = FALSE,
                        !.audio.paused = TRUE, !.audio.ref = FALSE,
                        !.es = "closed", !.channel = NoChannel, !.inbox = <<>>]
  /\ UNCHANGED <<now, server>>

\* the cleanups of the effects when RadioProvider unmounts: pause and drop
\* the audio element, close the EventSource, clearInterval of the poll and
\* of the progress interval
Unmount ==
  /\ rec.mounted
  /\ rec' = [rec EXCEPT !.mounted = FALSE,
                        !.audio.paused = TRUE, !.audio.ref = FALSE,
                        !.es = "closed", !.channel = NoChannel, !.inbox = <<>>,
                        !.pollTimer = FALSE, !.progressTimer = FALSE]
  /\ UNCHANGED <<now, server>>

\* the server takes the GET /api/radio/metadata of a fetchMetadata call in
\* flight
PollRequest(fail, track) ==
  /\ \E i \in 1..Len(rec.fetches) : rec.fetches[i].pc = "fetch"
  /\ metaReq.pc = "idle"
  /\ MetadataQuery(fail, track)

\* await fetch(...) settles with the response of the metadata endpoint
PollServed(i) ==
  /\ i \in 1..Len(rec.fetches)
  /\ rec.fetches[i].pc = "fetch"
  /\ metaReq.pc = "done"
  /\ rec' = IF metaReq.response.status = 200
            THEN [rec EXCEPT !.fetches[i].pc = "json",
                             !.fetches[i].data = metaReq.response.body]
            ELSE [rec EXCEPT !.fetches = RemoveAt(@, i)]
  /\ metaReq' = IdleMeta
  /\ UNCHANGED <<auth, lambda, now, radioSchedule, nextId, radioAssets, sseClients, chanState,
                 conn, outbox, adminReq>>

(* --------------------------- authentication ----------------------------- *)
\* Two authentication modules are in the repository: the one with the
\* in-memory session store (routes.ts 730-854, "sessions") and the one with
\* signed tokens (part_002, "jwt"). A request is served by one of them.
radio == <<radioSchedule, nextId, radioAssets, sseClients, chanState,
           conn, outbox, adminReq, metaReq, rec>>

MAX_LOGIN_ATTEMPTS == 5
ATTEMPT_WINDOW_MINUTES == 15
MsPerMinute == 60 * 1000
SessionMs == 24 * 60 * 60 * 1000
JwtSeconds == 24 * 60 * 60

\* the clock of the authentication specifications moves in half attempt
\* windows, that of the session specifications in half session lifetimes
LockoutStep == (ATTEMPT_WINDOW_MINUTES * MsPerMinute) \div 2
SessionStep == SessionMs \div 2

Advance(d) ==
  /\ now + d <= MaxAuthTicks * d
  /\ now' = now + d
  /\ UNCHANGED <<radio, auth, lambda>>

Modules == {"sessions", "jwt"}

\* the admin_users table: one active and one deactivated account
passwordHash(password) == <<"bcrypt", password>>
compare(password, hash) == hash = passwordHash(password)

adminUsers ==
  {[username |-> "admin", passwordHash |-> passwordHash("secret"), isActive |-> TRUE],
   [username |-> "retired", passwordHash |-> passwordHash("old"), isActive |-> FALSE]}

getAdminUserByUsername(username) == {u \in adminUsers : u.username = username}

RECURSIVE Sum(_, _)
Sum(f, S) ==
  IF S = {} THEN 0
  ELSE LET x == CHOOSE y \in S : TRUE IN f[x] + Sum(f, S \ {x})

Rows(table) == Sum(table, DOMAIN table)

recordLoginAttempt(table, username, successful, nowMs) ==
  LET row == [username |-> username, attemptedAt |-> nowMs, successful |-> successful]
  IN IF row \in DOMAIN table
     THEN [table EXCEPT ![row] = @ + 1]
     ELSE [r \in DOMAIN table \cup {row} |-> IF r = row THEN 1 ELSE table[r]]

\* the rows of the username not older than the cutoff
getRecentLoginAttempts(table, username, minutes, nowMs) ==
  LET cutoffTime == nowMs - minutes * MsPerMinute
  IN {r \in DOMAIN table : r.username = username /\ r.attemptedAt >= cutoffTime}

failedAttempts(table, username, nowMs) ==
  Sum(table, {r \in getRecentLoginAttempts(table, username, ATTEMPT_WINDOW_MINUTES, nowMs) :
                ~r.successful})

\* isRateLimited of the sessions module: a rejected query rejects the call,
\* which is the outcome "throws"
isRateLimited(table, username, nowMs, fail) ==
  IF fail THEN "throws"
  ELSE IF failedAttempts(table, username, nowMs) >= MAX_LOGIN_ATTEMPTS
       THEN "limited" ELSE "free"

\* isRateLimited of the jwt module: a rejected query is caught and answered
\* with false
isRateLimitedJwt(table, username, nowMs, fail) ==
  IF fail THEN "free"
  ELSE IF failedAttempts(table, username, nowMs) >= MAX_LOGIN_ATTEMPTS
       THEN "limited" ELSE "free"

Token(kind, sessionId, username, iat, exp, signed) ==
  [kind |-> kind, sessionId |-> sessionId, username |-> username,
   iat |-> iat, exp |-> exp, signed |-> signed]

\* generateSessionId gives an id no stored or earlier session has
generateSessionId(tokens) ==
  1 + Cardinality({i \in tokens : i.token.kind = "session"})

sessionToken(sessionId, username) == Token("session", sessionId, username, 0, 0, FALSE)

\* jwt.sign({username}, JWT_SECRET, {expiresIn: "24h"}): iat and exp are in
\* seconds
generateToken(username, nowMs) ==
  LET iat == Floor(nowMs, MsPerSecond)
  IN Token("jwt", 0, username, iat, iat + JwtSeconds, TRUE)

\* jwt.verify: the signature must be this server's and the token not expired
verifyToken(token, nowMs) ==
  /\ token.kind = "jwt" /\ token.signed
  /\ Floor(nowMs, MsPerSecond) < token.exp

validateSessionJwt(token, nowMs) ==
  IF verifyToken(token, nowMs) THEN token.username ELSE ""

validateSessionNoExpiry(store, token, nowMs) ==
  LET found == {s \in store : token.kind = "session" /\ s.sessionId = token.sessionId}
  IN IF found = {} THEN ""
     ELSE (CHOOSE s \in found : TRUE).username

\* validateSession of the sessions module: the username, or "" for null
validateSession(store, token, nowMs) ==
  LET found == {s \in store : token.kind = "session" /\ s.sessionId = token.sessionId}
  IN IF found = {} THEN ""
     ELSE LET session == CHOOSE s \in found : TRUE
          IN IF nowMs > session.expiresAt THEN "" ELSE session.username

\* ... and what it leaves in the store: an expired session is deleted
validateSessionStore(store, token, nowMs) ==
  {s \in store : ~(/\ token.kind = "session" /\ s.sessionId = token.sessionId
                   /\ nowMs > s.expiresAt)}

deleteSession(store, token) ==
  {s \in store : ~(token.kind = "session" /\ s.sessionId = token.sessionId)}

\* deleteSession of the jwt module has an empty body
deleteSessionJwt(store, token) == store

\* POST /api/auth/login arrives with a username and a password
Login(module, username, password) ==
  /\ loginReq.pc \in {"idle", "done"}
  /\ Rows(loginAttempts) < MaxAttempts
  /\ Cardinality(issued) < MaxSessions
  /\ loginReq' = [loginReq EXCEPT !.pc = "limit", !.module = module,
                                  !.username = username, !.password = password,
                                  !.limited = FALSE, !.locked = FALSE,
                                  !.checkedAt = NoTime, !.threw = FALSE,
                                  !.status = 0, !.token = NoToken]
  /\ UNCHANGED <<now, radio, lambda, loginAttempts, sessions, issued, loggedOut, authReq>>

\* validateCredentials up to the answer of isRateLimited
LoginRateLimit(fail) ==
  /\ loginReq.pc = "limit"
  /\ LET answer == IF loginReq.module = "jwt"
                   THEN isRateLimitedJwt(loginAttempts, loginReq.username, now, fail)
                   ELSE isRateLimited(loginAttempts, loginReq.username, now, fail)
         locked == failedAttempts(loginAttempts, loginReq.username, now)
                     >= MAX_LOGIN_ATTEMPTS
     IN loginReq' =
          IF answer = "throws"
          THEN [loginReq EXCEPT !.pc = "done", !.status = 500, !.threw = TRUE,
                                !.locked = locked, !.checkedAt = now]
          ELSE [loginReq EXCEPT !.pc = "validate", !.limited = (answer = "limited"),
                                !.threw = fail,
                                !.locked = locked, !.checkedAt = now]
  /\ UNCHANGED <<now, radio, lambda, loginAttempts, sessions, issued, loggedOut, authReq>>

\* the outcome of validateCredentials after the rate limit check: whether the
\* credentials are valid and whether an attempt is recorded and how
credentials(username, password, limited) ==
  LET found == getAdminUserByUsername(username)
  IN IF limited THEN [valid |-> FALSE, successful |-> FALSE]
     ELSE IF found = {} THEN [valid |-> FALSE, successful |-> FALSE]
     ELSE LET adminUser == CHOOSE u \in found : TRUE
          IN IF ~adminUser.isActive THEN [valid |-> FALSE, successful |-> FALSE]
             ELSE LET isValid == compare(password, adminUser.passwordHash)
                  IN [valid |-> isValid, successful |-> isValid]

\* the rest of validateCredentials and of the login route: the attempt is
\* recorded, and with valid credentials a session is created. A rejected
\* store call makes the sessions module answer 500 and the jwt module 401.
LoginFinish(fail) ==
  /\ loginReq.pc = "validate"
  /\ LET result == credentials(loginReq.username, loginReq.password, loginReq.limited)
         table == recordLoginAttempt(loginAttempts, loginReq.username,
                                     result.successful, now)
         token == IF loginReq.module = "jwt"
                  THEN generateToken(loginReq.username, now)
                  ELSE sessionToken(generateSessionId(issued), loginReq.username)
         triggers == /\ ~loginReq.limited /\ ~result.successful
                     /\ failedAttempts(table, loginReq.username, now) >= MAX_LOGIN_ATTEMPTS
     IN IF fail
        THEN /\ loginReq' = [loginReq EXCEPT !.pc = "done", !.threw = TRUE,
                               !.status = IF loginReq.module = "jwt" THEN 401 ELSE 500]
             /\ UNCHANGED <<loginAttempts, sessions, issued>>
        ELSE /\ loginAttempts' = table
             /\ IF result.valid
                THEN /\ loginReq' = [loginReq EXCEPT !.pc = "done", !.status = 200,
                                                     !.token = token]
                     /\ issued' = issued \cup {[token |-> token, createdAt |-> now]}
                     /\ sessions' =
                          IF loginReq.module = "jwt" THEN sessions
                          ELSE sessions \cup {[sessionId |-> token.sessionId,
                                               username |-> loginReq.username,
                                               expiresAt |-> now + SessionMs]}
                ELSE /\ loginReq' = [loginReq EXCEPT !.pc = "done", !.status = 401,
                                       !.lockoutAt = IF triggers THEN now ELSE @]
                     /\ UNCHANGED <<sessions, issued>>
  /\ UNCHANGED <<now, radio, lambda, loggedOut, authReq>>

\* the tokens a request can present: those handed out, a session id and a
\* signed-looking token no createSession returned, and none at all
ForgedTokens ==
  {Token("session", 0, "admin", 0, 0, FALSE),
   Token("jwt", 0, "admin", 0, JwtSeconds * (MaxAuthTicks + 1), FALSE)}

PresentedTokens == {i.token : i \in issued} \cup ForgedTokens \cup {NoToken}

\* requireAuth in front of a protected handler, and GET /api/auth/me: both
\* answer 401 without a token or a username for it
authorize(route, module, token) ==
  LET username == IF token = NoToken THEN ""
                  ELSE IF module = "jwt" THEN validateSessionJwt(token, now)
                  ELSE validateSession(sessions, token, now)
  IN /\ authReq' = [pc |-> "done", route |-> route, module |-> module, token |-> token,
                    status |-> IF username = "" THEN 401 ELSE 200,
                    ran |-> username # ""]
     /\ sessions' = IF token = NoToken \/ module = "jwt" THEN sessions
                    ELSE validateSessionStore(sessions, token, now)
     /\ UNCHANGED <<now, radio, lambda, loginAttempts, issued, loggedOut, loginReq>>

requireAuth(module, token) == authorize("protected", module, token)

Me(module, token) == authorize("me", module, token)

\* POST /api/auth/logout
Logout(module, token) ==
  /\ token # NoToken
  /\ sessions' = IF module = "jwt" THEN deleteSessionJwt(sessions, token)
                 ELSE deleteSession(sessions, token)
  /\ loggedOut' = loggedOut \cup {[module |-> module, token |-> token]}
  /\ UNCHANGED <<now, radio, lambda, loginAttempts, issued, loginReq, authReq>>

(* ------------------------ serverless entry points ---------------------- *)
\* api/index.ts: a request enters the exported function. Without a handler
\* it calls createApp() and awaits initializeAppForServerless(app); with one
\* it is dispatched at once.
IndexRequest(q) ==
  /\ apiIndex.req[q] = "cold"
  /\ apiIndex' =
       IF ~apiIndex.handler
       THEN [apiIndex EXCEPT !.created = @ + 1, !.started = @ + 1, !.req[q] = "init"]
       ELSE [apiIndex EXCEPT !.req[q] = "done",
                             !.early = @ \/ apiIndex.completed = 0]
  /\ UNCHANGED <<now, radio, auth, apiLazy>>

\* await initializeAppForServerless(app) settles: handler = serverless(app)
\* and the request is dispatched; a rejection is answered with 500
IndexInitialized(q, fail) ==
  /\ apiIndex.req[q] = "init"
  /\ apiIndex' =
       IF fail
       THEN [apiIndex EXCEPT !.req[q] = "failed"]
       ELSE [apiIndex EXCEPT !.handler = TRUE, !.completed = @ + 1, !.req[q] = "done"]
  /\ UNCHANGED <<now, radio, auth, apiLazy>>

\* getApp of part_000 after the lazy import: app is created if it is null,
\* initializeAppForServerlessFn(app) is awaited if initialized is false,
\* else the app is returned and the request dispatched
getApp(l, q) ==
  LET made == IF l.app THEN l ELSE [l EXCEPT !.app = TRUE, !.created = @ + 1]
  IN IF ~made.initialized
     THEN [made EXCEPT !.started = @ + 1, !.req[q] = "init"]
     ELSE [made EXCEPT !.req[q] = "done", !.early = @ \/ made.completed = 0]

\* part_000: a request enters handler, which awaits getApp(); getApp awaits
\* the import of the server module unless both functions are there
LazyRequest(q) ==
  /\ apiLazy.req[q] = "cold"
  /\ apiLazy' = IF ~apiLazy.imported THEN [apiLazy EXCEPT !.req[q] = "import"]
                ELSE getApp(apiLazy, q)
  /\ UNCHANGED <<now, radio, auth, apiIndex>>

\* await import(...) settles; a rejection is rethrown and answered with 500
LazyImported(q, fail) ==
  /\ apiLazy.req[q] = "import"
  /\ apiLazy' = IF fail THEN [apiLazy EXCEPT !.req[q] = "failed"]
                ELSE getApp([apiLazy EXCEPT !.imported = TRUE], q)
  /\ UNCHANGED <<now, radio, auth, apiIndex>>

\* await initializeAppForServerlessFn(app) settles: initialized = true and
\* the request is dispatched to the app
LazyInitialized(q, fail) ==
  /\ apiLazy.req[q] = "init"
  /\ apiLazy' =
       IF fail
       THEN [apiLazy EXCEPT !.req[q] = "failed"]
       ELSE [apiLazy EXCEPT !.initialized = TRUE, !.completed = @ + 1,
                            !.req[q] = "done"]
  /\ UNCHANGED <<now, radio, auth, apiIndex>>

(* --------------------------- specifications ---------------------------- *)
StoreNext ==
  \/ Tick
  \/ \E a \in AssetIds, d \in Durations : CreateRadioAsset(a, d)
  \/ \E a \in AssetIds : DeleteRadioAsset(a)
  \/ \E a \in AssetIds, w \in Windows, fail \in BOOLEAN : PostSchedule(a, w, fail)
  \/ \E fail \in BOOLEAN : PostScheduleBroadcast(fail)
  \/ \E id \in ItemIds, a \in AssetIds, w \in Windows, fail \in BOOLEAN :
       PatchSchedule(id, a, w, fail)
  \/ PatchScheduleBroadcast
  \/ \E id \in ItemIds, fail \in BOOLEAN : DeleteSchedule(id, fail)
  \/ DeleteScheduleBroadcast

ResolverNext ==
  \/ \E fail \in BOOLEAN, track \in demoTracks : MetadataQuery(fail, track)
  \/ \E fail \in BOOLEAN, track \in demoTracks : MetadataRespond(fail, track)

ChannelNext ==
  \/ \E c \in Channels : Connect(c)
  \/ \E c \in Channels, fail \in BOOLEAN : InitialStateQuery(c, fail)
  \/ \E c \in Channels, fail \in BOOLEAN : InitialStateSend(c, fail)
  \/ \E c \in Channels : ChannelFail(c)
  \/ \E c \in Channels : Close(c)

NextResolver == StoreNext \/ ResolverNext
SpecResolver == Init /\ [][NextResolver]_vars

\* Both users of the position calculator, the metadata endpoint and the
\* initial state of one push channel, over a schedule and an asset store
\* that are filled while they run.
FirstChannel == {1}

NextPosition ==
  \/ Tick
  \/ \E a \in AssetIds, d \in Durations : CreateRadioAsset(a, d)
  \/ \E a \in AssetIds : DeleteRadioAsset(a)
  \/ \E a \in AssetIds, w \in Windows, fail \in BOOLEAN : PostSchedule(a, w, fail)
  \/ \E fail \in BOOLEAN : PostScheduleBroadcast(fail)
  \/ ResolverNext
  \/ \E c \in FirstChannel : Connect(c)
  \/ \E c \in FirstChannel, fail \in BOOLEAN : InitialStateQuery(c, fail)
  \/ \E c \in FirstChannel, fail \in BOOLEAN : InitialStateSend(c, fail)

SpecPosition == Init /\ [][NextPosition]_vars

\* The broadcaster on its own: the clock stands still and every schedule
\* item spans the whole modelled time, so an item is current once created.
AllTime == <<0, MaxTicks * TickMs>>

BroadcastStoreNext ==
  \/ \E a \in AssetIds : CreateRadioAsset(a, MaxDuration)
  \/ \E a \in AssetIds, fail \in BOOLEAN : PostSchedule(a, AllTime, fail)
  \/ \E fail \in BOOLEAN : PostScheduleBroadcast(fail)
  \/ \E id \in ItemIds, a \in AssetIds, fail \in BOOLEAN :
       PatchSchedule(id, a, AllTime, fail)
  \/ PatchScheduleBroadcast
  \/ \E id \in ItemIds, fail \in BOOLEAN : DeleteSchedule(id, fail)
  \/ DeleteScheduleBroadcast

NextBroadcast == BroadcastStoreNext \/ ChannelNext
SpecBroadcast == Init /\ [][NextBroadcast]_vars

\* The life of the push channels, keepalive included, while items are
\* created and deleted.
NextChannel ==
  \/ \E a \in AssetIds : CreateRadioAsset(a, MaxDuration)
  \/ \E a \in AssetIds, fail \in BOOLEAN : PostSchedule(a, AllTime, fail)
  \/ \E fail \in BOOLEAN : PostScheduleBroadcast(fail)
  \/ \E id \in ItemIds, fail \in BOOLEAN : DeleteSchedule(id, fail)
  \/ DeleteScheduleBroadcast
  \/ ChannelNext
  \/ \E c \in Channels : Heartbeat(c)

SpecChannel == Init /\ [][NextChannel]_vars

\* One reconciler on its push channel while an administrator fills the
\* schedule; the server closes only channels the reconciler has left.
NextPush ==
  \/ Tick
  \/ \E a \in AssetIds : CreateRadioAsset(a, MaxDuration)
  \/ \E a \in AssetIds, fail \in BOOLEAN : PostSchedule(a, AllTime, fail)
  \/ \E fail \in BOOLEAN : PostScheduleBroadcast(fail)
  \/ \E c \in Channels : ListenerConnect(c)
  \/ \E c \in Channels, fail \in BOOLEAN : InitialStateQuery(c, fail)
  \/ \E c \in Channels, fail \in BOOLEAN : InitialStateSend(c, fail)
  \/ ListenerOpen
  \/ \E playOk \in BOOLEAN : HandleSSEMessage(playOk)
  \/ \E c \in Channels \ {rec.channel} : Close(c)

SpecPush == Init /\ [][NextPush]_vars

\* The reconciler on the messages of its push channel, with a user who
\* plays, pauses and seeks.
ReconcilerNext ==
  \/ OnOpen
  \/ \E data \in ServerMessages : MessageEvent(data)
  \/ \E playOk \in BOOLEAN : Play(playOk)
  \/ Pause
  \/ \E time \in 0..MaxPosition : Seek(time)
  \/ TimeUpdate

NextReconciler ==
  \/ ReconcilerNext
  \/ \E playOk \in BOOLEAN : OnMessage(playOk)

SpecReconciler == Init /\ [][NextReconciler]_vars

\* The same where the browser lets every play() of a reload through.
NextReload ==
  \/ ReconcilerNext
  \/ OnMessage(TRUE)

SpecReload == Init /\ [][NextReload]_vars

\* The same with a user who also sets the volume.
NextUser ==
  \/ NextReconciler
  \/ \E newVolume \in 0..MaxVolume : SetVolume(newVolume)

SpecUser == Init /\ [][NextUser]_vars

\* The same on a channel that also carries data that is not JSON.
NextMalformed ==
  \/ NextReconciler
  \/ MessageEvent(MalformedMessage)

SpecMalformed == Init /\ [][NextMalformed]_vars

\* The progress interval of the reconciler while time passes and the audio
\* plays, with the messages and the polls that start and stop it.
NextProgress ==
  \/ Tick
  \/ OnOpen
  \/ \E data \in ServerMessages : MessageEvent(data)
  \/ \E playOk \in BOOLEAN : OnMessage(playOk)
  \/ \E playOk \in BOOLEAN : Play(playOk)
  \/ TimeUpdate
  \/ ProgressTick
  \/ PollTimer
  \/ \E i \in 1..MaxFetches, data \in MetadataBodies, ok \in BOOLEAN :
       PollResponse(i, data, ok)
  \/ \E i \in 1..MaxFetches, playOk \in BOOLEAN : PollApply(i, playOk)

SpecProgress == Init /\ [][NextProgress]_vars

\* The reconciler's intervals up to and after the unmount, on a channel that
\* carries the live state and the state of one running asset and may fail.
RunningMessages ==
  {liveStateMsg}
    \cup {scheduledStateMsg(PushItem(a), [id |-> a, audioUrl |-> a,
                                          durationSeconds |-> MaxPosition], PushStart) :
            a \in AssetIds}

RunningBodies ==
  {fallbackBody(1)}
    \cup {metadataResponse(PushItem(a), [id |-> a, audioUrl |-> a,
                                         durationSeconds |-> MaxPosition],
                           PushStart, 1).body : a \in AssetIds}

NextTeardown ==
  \/ Tick
  \/ OnOpen
  \/ \E data \in RunningMessages : MessageEvent(data)
  \/ \E playOk \in BOOLEAN : OnMessage(playOk)
  \/ OnError
  \/ \E throws \in BOOLEAN : RetryTimer(throws)
  \/ ProgressTick
  \/ PollTimer
  \/ \E i \in 1..MaxFetches, data \in RunningBodies, ok \in BOOLEAN :
       PollResponse(i, data, ok)
  \/ \E i \in 1..MaxFetches, playOk \in BOOLEAN : PollApply(i, playOk)
  \/ Unmount

SpecTeardown == Init /\ [][NextTeardown]_vars

\* One listener and the server while an administrator creates assets and
\* items whose window ends before the modelled time does; the listener's
\* part, the server's handlers and the clock do not stop while they can go on.
EarlyWindow == <<0, TickMs>>

FollowAdmin ==
  \/ \E a \in AssetIds : CreateRadioAsset(a, MaxDuration)
  \/ \E a \in AssetIds : PostSchedule(a, EarlyWindow, FALSE)

FollowRun ==
  \/ Tick
  \/ PostScheduleBroadcast(FALSE)
  \/ \E c \in Channels : ListenerConnect(c)
  \/ \E c \in Channels, fail \in BOOLEAN : InitialStateQuery(c, fail)
  \/ \E c \in Channels : InitialStateSend(c, FALSE)
  \/ ListenerOpen
  \/ HandleSSEMessage(TRUE)
  \/ \E c \in Channels \ {rec.channel} : Close(c)
  \/ PollTimer
  \/ PollRequest(FALSE, 1)
  \/ MetadataRespond(FALSE, 1)
  \/ \E i \in 1..MaxFetches : PollServed(i)
  \/ \E i \in 1..MaxFetches : PollApply(i, TRUE)

NextFollow == FollowAdmin \/ FollowRun

SpecFollow == Init /\ [][NextFollow]_vars /\ WF_vars(FollowRun)

\* Logins at both authentication modules for two usernames while the clock
\* moves in half attempt windows; the attempts query can be rejected.
LoginBodies == {<<"admin", "secret">>, <<"admin", "wrong">>, <<"retired", "old">>}

NextLogin ==
  \/ Advance(LockoutStep)
  \/ \E module \in Modules, body \in LoginBodies :
       /\ Rows(loginAttempts) < MaxLogins
       /\ Login(module, body[1], body[2])
  \/ \E fail \in BOOLEAN : LoginRateLimit(fail)
  \/ LoginFinish(FALSE)

SpecLogin == Init /\ [][NextLogin]_vars

\* Logins for the active account over more than one attempt window, with no
\* store call rejected.
LockoutBodies == {<<"admin", "secret">>, <<"admin", "wrong">>}

NextLockout ==
  \/ Advance(LockoutStep)
  \/ \E module \in Modules, body \in LockoutBodies : Login(module, body[1], body[2])
  \/ LoginRateLimit(FALSE)
  \/ LoginFinish(FALSE)

SpecLockout == Init /\ [][NextLockout]_vars

\* Sessions over more than one session lifetime: logins of the active account
\* at both modules, requests that present a token to requireAuth and to
\* /api/auth/me, and logouts with a token at the module that handed it out.
moduleOf(token) == IF token.kind = "jwt" THEN "jwt" ELSE "sessions"

NextSession ==
  \/ Advance(SessionStep)
  \/ \E module \in Modules :
       /\ Rows(loginAttempts) < MaxSessions
       /\ Login(module, "admin", "secret")
  \/ LoginRateLimit(FALSE)
  \/ LoginFinish(FALSE)
  \/ \E module \in Modules, token \in PresentedTokens : requireAuth(module, token)
  \/ \E module \in Modules, token \in PresentedTokens : Me(module, token)
  \/ \E i \in issued : Logout(moduleOf(i.token), i.token)

SpecSession == Init /\ [][NextSession]_vars

\* Requests arriving at the two serverless functions from a cold start.
NextServerless ==
  \/ \E q \in Requests : IndexRequest(q)
  \/ \E q \in Requests, fail \in BOOLEAN : IndexInitialized(q, fail)
  \/ \E q \in Requests : LazyRequest(q)
  \/ \E q \in Requests, fail \in BOOLEAN : LazyImported(q, fail)
  \/ \E q \in Requests, fail \in BOOLEAN : LazyInitialized(q, fail)

SpecServerless == Init /\ [][NextServerless]_vars

\* The poll of the reconciler next to its push channel, which opens, carries
\* messages, fails and is connected again.
NextPoll ==
  \/ OnOpen
  \/ \E data \in RunningMessages : MessageEvent(data)
  \/ \E playOk \in BOOLEAN : OnMessage(playOk)
  \/ OnError
  \/ \E throws \in BOOLEAN : RetryTimer(throws)
  \/ PollTimer
  \/ \E i \in 1..MaxFetches, data \in MetadataBodies, ok \in BOOLEAN :
       PollResponse(i, data, ok)
  \/ \E i \in 1..MaxFetches, playOk \in BOOLEAN : PollApply(i, playOk)

SpecPoll == Init /\ [][NextPoll]_vars

\* The same where a pending setTimeout(connectSSE, 5000) does run.
SpecReconnect ==
  Init /\ [][NextPoll]_vars /\ WF_vars(\E throws \in BOOLEAN : RetryTimer(throws))

(* ------------------------------ properties ----------------------------- *)
Clamp(x, lo, hi) == Max(lo, Min(x, hi))
Last(q) == q[Len(q)]
BroadcastDone == adminReq.pc = "done" /\ adminReq.broadcast

\* C1: when a write of a broadcast throws on channel k, every registered
\* channel whose write does not throw still gets the message, and k is not
\* in the registry after the broadcast.
C1_FailureIsolation ==
  (BroadcastDone /\ adminReq.thrower # NoChannel) =>
    /\ \A c \in Range(adminReq.registry) \ adminReq.failing : c \in adminReq.written
    /\ adminReq.thrower \notin Range(adminReq.registryAfter)

\* C2: a mutation that was stored and whose broadcast met a throwing channel
\* is still answered with the success response.
C2_MutationOutcome ==
  (adminReq.pc = "done" /\ adminReq.stored /\ adminReq.broadcast
     /\ adminReq.thrower # NoChannel) => adminReq.status = 200

\* C3: the handler of a mutation that was stored and met no store failure
\* afterwards writes one broadcast message to every channel registered when
\* it finishes (whose write does not throw); so also the handler of a create
\* whose asset is not found.
C3_Step ==
  (adminReq.pc \in {"asset", "broadcast"} /\ adminReq'.pc = "done" /\ adminReq.stored
     /\ (adminReq'.broadcast \/ adminReq'.status = 200)) =>
    \A c \in Range(sseClients) :
      chanState[c] = "open" =>
        /\ Len(outbox'[c]) = Len(outbox[c]) + 1
        /\ Last(outbox'[c]).type \in {"schedule_update", "schedule_deleted"}

C3_MutationBroadcasts == [][C3_Step]_vars

\* C4: when the reconciler, its push channel open and the initial state
\* behind it, handles the schedule_update pushed for a created item that is
\* the current item (its window contains now, its asset exists), it is
\* SCHEDULED afterwards (isScheduled, not isLive) with the asset's audioUrl
\* as loaded source.
C4_Step ==
  (/\ rec.es = "open" /\ rec.channel # NoChannel
   /\ outbox[rec.channel] # <<>>
   /\ outbox'[rec.channel] = Tail(outbox[rec.channel])
   /\ conn[rec.channel].pc = "done"
   /\ Head(outbox[rec.channel]).type = "schedule_update"
   /\ Has(Head(outbox[rec.channel]), "asset")
   /\ inWindow(Head(outbox[rec.channel]).scheduleItem, now)
   /\ Head(outbox[rec.channel]).scheduleItem \in getCurrentScheduledItem(radioSchedule, now)
   /\ getRadioAssetById(radioAssets, Head(outbox[rec.channel]).scheduleItem.assetId).id # 0)
  => /\ rec'.isScheduled /\ ~rec'.isLive
     /\ rec'.currentStreamUrl = Head(outbox[rec.channel]).asset.audioUrl
     /\ rec'.audio.src = Head(outbox[rec.channel]).asset.audioUrl

C4_PushUpdate == [][C4_Step]_vars

\* C5: the initial-state task of an open channel, when its lookups resolve,
\* writes one `state` message to the channel: isScheduled = TRUE when an item
\* is current and its asset exists, isScheduled = FALSE when no item is
\* current and also when the current item's asset is missing.
C5_InitialStateStep(c) ==
  (conn[c].pc \in {"schedule", "asset"} /\ conn'[c].pc = "done"
     /\ ~conn'[c].threw /\ chanState[c] = "open") =>
    /\ Len(outbox'[c]) = Len(outbox[c]) + 1
    /\ Last(outbox'[c]).type = "state"
    /\ Last(outbox'[c]).isScheduled =
         (/\ conn[c].pc = "asset"
          /\ getRadioAssetById(radioAssets, conn[c].currentSchedule.assetId).id # 0)

C5_InitialState == [][\A c \in Channels : C5_InitialStateStep(c)]_vars

\* C6: a metadata query made at a time that lies in no stored item's
\* [scheduledStart, scheduledEnd) is answered with isScheduled = FALSE.
C6_HalfOpenWindow ==
  (metaReq.pc = "done" /\ ~metaReq.threw /\ ~metaReq.inWindow) =>
    metaReq.response.body.isScheduled = FALSE

\* C7: when the item the resolver selected has an asset, the answer (the
\* metadata response, the initial `state` message) has isScheduled = TRUE and
\* positionSeconds = clamp(floor((now - scheduledStart) / 1000), 0,
\* durationSeconds); every scheduled response and `state` message has
\* 0 <= positionSeconds <= durationSeconds.
PositionInRange(m) == 0 <= m.positionSeconds /\ m.positionSeconds <= m.currentAsset.durationSeconds

C7_Bounds ==
  /\ (metaReq.pc = "done" /\ metaReq.response.status = 200
        /\ metaReq.response.body.isScheduled) => PositionInRange(metaReq.response.body)
  /\ \A c \in Channels : \A i \in 1..Len(outbox[c]) :
       (outbox[c][i].type = "state" /\ outbox[c][i].isScheduled)
         => PositionInRange(outbox[c][i])

C7_Answer(it, m) ==
  LET asset == getRadioAssetById(radioAssets, it.assetId)
  IN /\ m.isScheduled
     /\ m.currentAsset.id = asset.id
     /\ m.startedAt = it.scheduledStart
     /\ m.positionSeconds = Clamp(Floor(now - it.scheduledStart, MsPerSecond),
                                  0, asset.durationSeconds)

C7_Step ==
  /\ (metaReq.pc = "asset" /\ metaReq'.pc = "done" /\ ~metaReq'.threw
        /\ getRadioAssetById(radioAssets, metaReq.currentSchedule.assetId).id # 0)
       => C7_Answer(metaReq.currentSchedule, metaReq'.response.body)
  /\ \A c \in Channels :
       (conn[c].pc = "asset" /\ conn'[c].pc = "done" /\ ~conn'[c].threw
          /\ chanState[c] = "open"
          /\ getRadioAssetById(radioAssets, conn[c].currentSchedule.assetId).id # 0)
         => /\ Len(outbox'[c]) = Len(outbox[c]) + 1
            /\ Last(outbox'[c]).type = "state"
            /\ C7_Answer(conn[c].currentSchedule, Last(outbox'[c]))

C7_Position == [](C7_Bounds) /\ [][C7_Step]_vars

C7_Witness ==
  /\ metaReq.pc = "done" /\ metaReq.response.status = 200
  /\ metaReq.response.body.isScheduled
  /\ metaReq.response.body.positionSeconds = 1
  /\ \E c \in Channels : \E i \in 1..Len(outbox[c]) :
       /\ outbox[c][i].type = "state" /\ outbox[c][i].isScheduled
       /\ outbox[c][i].currentAsset.durationSeconds = 0
       /\ outbox[c][i].startedAt = 0
       /\ now >= MsPerSecond

\* C8: when the selected item's asset is missing, the metadata endpoint
\* answers 200 with the live fallback body (isScheduled = FALSE, the default
\* stream URL, a demo track), the body it gives when nothing is scheduled.
C8_Step ==
  (metaReq.pc = "asset" /\ metaReq'.pc = "done" /\ ~metaReq'.threw
     /\ getRadioAssetById(radioAssets, metaReq.currentSchedule.assetId).id = 0)
    => /\ metaReq'.response.status = 200
       /\ \E track \in demoTracks :
            metaReq'.response.body =
              [isScheduled |-> FALSE, track |-> track, streamUrl |-> DEMO_STREAM_URL]

C8_DanglingFallback == [][C8_Step]_vars

C8_Witness ==
  /\ metaReq.pc = "done" /\ ~metaReq.threw
  /\ metaReq.currentSchedule.id # 0
  /\ metaReq.response.status = 200
  /\ ~metaReq.response.body.isScheduled

\* C9: a metadata query one of whose store lookups rejects is still
\* answered with the live fallback state, not with an error.
C9_NeverRaises ==
  (metaReq.pc = "done" /\ metaReq.threw) =>
    /\ metaReq.response.status = 200
    /\ metaReq.response.body.isScheduled = FALSE

\* C10: the item the resolver selects has the latest scheduledStart of all
\* stored items whose window contains now, whatever their creation order.
C10_Step ==
  (metaReq.pc # "asset" /\ metaReq'.pc = "asset") =>
    /\ metaReq'.currentSchedule \in radioSchedule
    /\ \A it \in radioSchedule :
         inWindow(it, now) => it.scheduledStart <= metaReq'.currentSchedule.scheduledStart

C11_Closed ==
  \A c \in Channels :
    /\ chanState[c] = "closed" => c \notin Range(sseClients)
    /\ ~conn[c].writeAfterClose

C11_Step ==
  (adminReq.pc # "done" /\ adminReq'.pc = "done" /\ adminReq'.broadcast) =>
    \A c \in adminReq'.written \cup ({adminReq'.thrower} \ {NoChannel}) :
      chanState[c] # "closed"

C11_NoWriteAfterClose == [](C11_Closed) /\ [][C11_Step]_vars

\* the step in which onmessage handles the first queued message
MessageHandled ==
  /\ rec.inbox # <<>>
  /\ Len(rec'.inbox) < Len(rec.inbox)
  /\ rec'.es # "closed"

ScheduledHandled ==
  /\ MessageHandled
  /\ Head(rec.inbox).type \in {"state", "schedule_update"}
  /\ isScheduledMessage(Head(rec.inbox))

\* C12: when the reconciler, LIVE or SCHEDULED, handles a message with
\* isScheduled = TRUE and positionSeconds p, and the position of its audio
\* is more than 2 seconds away from min(p, durationSeconds) of the message,
\* the position of its audio is that value after the handling.
C12_Step ==
  (ScheduledHandled /\ Has(Head(rec.inbox), "positionSeconds")) =>
    LET data == Head(rec.inbox)
        target == Min(data.positionSeconds, data.currentAsset.durationSeconds)
    IN Abs(rec.audio.currentTime - target) > DriftToleranceSeconds
         => rec'.audio.currentTime = target

C12_DriftCorrection == [][C12_Step]_vars

\* C13: the handling of a message loads a source only when the URL the
\* message asks for (streamUrl of a scheduled message, the default stream
\* for isScheduled = FALSE and for schedule_deleted) is not the source
\* already loaded.
targetUrl(data) ==
  IF data.type \in {"state", "schedule_update"} /\ isScheduledMessage(data)
  THEN data.streamUrl ELSE DEMO_STREAM_URL

C13_Step ==
  (MessageHandled /\ targetUrl(Head(rec.inbox)) = rec.audio.src)
    => rec'.audio.loads = rec.audio.loads

C13_ReloadOnlyOnChange == [][C13_Step]_vars

\* C14: a load of a source by initAudio leaves the audio playing if and only
\* if it was playing before, and leaves isPlaying as it was.
C14_Step ==
  (rec.audio.ref /\ rec'.audio.loads # rec.audio.loads) =>
    /\ rec'.audio.paused = rec.audio.paused
    /\ rec'.isPlaying = rec.isPlaying

C15_Step ==
  (MessageHandled /\ Head(rec.inbox).type = "schedule_deleted"
     /\ rec.isScheduled /\ ~rec.isLive) =>
    /\ ~rec'.isScheduled /\ rec'.isLive
    /\ rec'.currentStreamUrl = DEMO_STREAM_URL
    /\ rec'.audio.src = DEMO_STREAM_URL

C15_DeletedGoesLive == [][C15_Step]_vars

C15_Witness ==
  /\ ~rec.isScheduled /\ rec.isLive
  /\ rec.currentAsset.id # 0
  /\ rec.audio.src = DEMO_STREAM_URL /\ rec.currentStreamUrl = DEMO_STREAM_URL

\* C16: the progress interval runs only while the reconciler is SCHEDULED,
\* and a position the updater reports is never above the durationSeconds of
\* the current asset, however long ago startedAt is.
TimeUpdateStep == rec'.audio.currentTime = rec.audio.currentTime + 1

C16_Step ==
  (rec'.progress # rec.progress /\ ~TimeUpdateStep) =>
    /\ rec'.isScheduled
    /\ rec'.progress <= rec'.currentAsset.durationSeconds

C16_ProgressUpdater ==
  [](rec.progressTimer => rec.isScheduled /\ ~rec.isLive) /\ [][C16_Step]_vars

C16_Witness ==
  /\ rec.progressTimer
  /\ Floor(now - rec.startedAt, MsPerSecond) > rec.currentAsset.durationSeconds
  /\ rec.audio.currentTime > rec.currentAsset.durationSeconds
  /\ rec.progress = rec.currentAsset.durationSeconds

\* C20: the unmount cancels the progress interval and the poll interval:
\* from then on no poll request is sent and no position is reported.
SentFetches(r) == {i \in 1..Len(r.fetches) : r.fetches[i].pc = "fetch"}

C20_Step ==
  ~rec.mounted =>
    /\ Len(rec'.fetches) <= Len(rec.fetches)
    /\ Cardinality(SentFetches(rec')) <= Cardinality(SentFetches(rec))
    /\ rec'.progress = rec.progress

C20_TimersCancelled ==
  [](~rec.mounted => ~rec.pollTimer /\ ~rec.progressTimer) /\ [][C20_Step]_vars

C20_Witness ==
  /\ ~rec.mounted
  /\ ~rec.sseConnected /\ rec.fetches = <<>>
  /\ progressRuns(rec)
  /\ rec.progress < updateProgress(rec.startedAt, rec.currentAsset, now)

\* the step in which a fetchMetadata call goes on after response.json()
JsonFetches(r) == {i \in 1..Len(r.fetches) : r.fetches[i].pc = "json"}
PollApplied == Cardinality(JsonFetches(rec')) < Cardinality(JsonFetches(rec))

\* C17: no fetchMetadata call applies its response to the reconciler while
\* the push channel is connected (sseConnectedRef is set).
C17_Step == PollApplied => ~rec.sseConnected

C17_PollSuppressed == [][C17_Step]_vars

\* C18: a poll response leaves the reconciler where the `state` message with
\* the same payload, handled in the same state, would leave it (isScheduled,
\* isLive, currentAsset, source URL, startedAt); a reconciler SCHEDULED by a
\* poll has its startedAt and its progress interval running.
stateMessage(body) ==
  IF body.isScheduled
  THEN [type |-> "state", isScheduled |-> TRUE, currentAsset |-> body.currentAsset,
        streamUrl |-> body.streamUrl, startedAt |-> body.startedAt,
        positionSeconds |-> body.positionSeconds]
  ELSE liveStateMsg

reconciled(r) ==
  <<r.isScheduled, r.isLive, r.currentAsset, r.audio.src, r.startedAt>>

C18_Step ==
  PollApplied =>
    \E i \in JsonFetches(rec) :
      LET f == rec.fetches[i]
          r == [rec EXCEPT !.fetches = RemoveAt(@, i), !.esClosure = f.k]
      IN /\ \E playOk \in BOOLEAN :
              reconciled(rec') =
                reconciled(render(r, handleSSEMessage(r, stateMessage(f.data), playOk),
                                  messageFresh(stateMessage(f.data)), now))
         /\ f.data.isScheduled =>
              rec'.startedAt = f.data.startedAt /\ rec'.progressTimer

C18_PollLikePush == [][C18_Step]_vars

\* C19: a push channel that failed (an error event, or a channel that could
\* not be opened) is closed, and a new connection attempt follows, every
\* time.
C19_Reconnects == (rec.mounted /\ rec.es = "closed") ~> (rec.es = "connecting")

\* C21: play, pause, seek and setVolume leave isScheduled, isLive, the
\* current asset and the loaded source URL as they are, and seek leaves the
\* audio position as it is while the reconciler is LIVE.
UserAction ==
  \/ \E playOk \in BOOLEAN : Play(playOk)
  \/ Pause
  \/ \E time \in 0..MaxPosition : Seek(time)
  \/ \E newVolume \in 0..MaxVolume : SetVolume(newVolume)

C21_Step ==
  /\ UserAction =>
       /\ rec'.isScheduled = rec.isScheduled /\ rec'.isLive = rec.isLive
       /\ rec'.currentAsset = rec.currentAsset
       /\ rec'.currentStreamUrl = rec.currentStreamUrl
       /\ rec'.audio.src = rec.audio.src
  /\ ((\E time \in 0..MaxPosition : Seek(time)) /\ rec.isLive)
       => rec'.audio.currentTime = rec.audio.currentTime

C21_UserActionsLocal == [][C21_Step]_vars

C21_Witness ==
  /\ rec.isScheduled /\ ~rec.isLive
  /\ rec.audio.src = rec.currentAsset.audioUrl /\ rec.currentAsset.id # 0
  /\ rec.isPlaying /\ ~rec.audio.paused
  /\ rec.audio.currentTime = MaxPosition /\ rec.currentAsset.durationSeconds = 0
  /\ rec.volume = MaxVolume /\ rec.audio.volume = MaxVolume

\* C22: the handling of a message that cannot be parsed leaves isScheduled,
\* isLive, the asset, the source URL, startedAt and the audio position as
\* they are and the EventSource open with its handler, so that the messages
\* after it are handled.
C22_Step ==
  ((\E playOk \in BOOLEAN : OnMessage(playOk)) /\ Head(rec.inbox) = MalformedMessage) =>
    /\ reconciled(rec') = reconciled(rec)
    /\ rec'.currentStreamUrl = rec.currentStreamUrl
    /\ rec'.audio = rec.audio
    /\ rec'.es = "open" /\ rec'.esClosure = rec.esClosure
    /\ rec'.inbox = Tail(rec.inbox)

C22_MalformedDropped == [][C22_Step]_vars

C22_Witness ==
  /\ rec.parseErrors
  /\ rec.es = "open" /\ rec.inbox = <<>>
  /\ rec.isScheduled /\ rec.audio.src = rec.currentAsset.audioUrl

\* C23: from some moment on a listener whose push channel is connected has
\* the classification of the server's resolver: SCHEDULED exactly when an
\* item is current and its asset exists; so it is LIVE once the window of
\* the current item has ended.
PushConnected ==
  /\ rec.es = "open" /\ rec.sseConnected
  /\ rec.channel # NoChannel /\ chanState[rec.channel] = "open"

ResolverScheduled ==
  \E cur \in getCurrentScheduledItem(radioSchedule, now) :
    getRadioAssetById(radioAssets, cur.assetId).id # 0

C23_ListenersFollow ==
  <>[](PushConnected => (rec.isScheduled <=> ResolverScheduled))

\* C24: a login whose username had MAX_LOGIN_ATTEMPTS failed attempts in the
\* attempt window when validateCredentials checked the rate limit is not
\* answered with 200, also with the right password, and creates no session.
C24_Step ==
  ((\E fail \in BOOLEAN : LoginFinish(fail)) /\ loginReq.locked) =>
    /\ loginReq'.status # 200 /\ loginReq'.token = NoToken
    /\ issued' = issued /\ sessions' = sessions

C24_RateLimited == [][C24_Step]_vars

\* C25: a login of an active account with the right password whose rate
\* limit check is made more than ATTEMPT_WINDOW_MINUTES after the failed
\* attempt that last brought the username to the limit is answered with 200.
activeAccount(username, password) ==
  \E u \in getAdminUserByUsername(username) :
    u.isActive /\ compare(password, u.passwordHash)

C25_LockoutEnds ==
  (/\ loginReq.pc = "done" /\ ~loginReq.threw
   /\ activeAccount(loginReq.username, loginReq.password)
   /\ loginReq.lockoutAt # NoTime
   /\ loginReq.checkedAt > loginReq.lockoutAt + ATTEMPT_WINDOW_MINUTES * MsPerMinute)
    => loginReq.status = 200

\* C26: requireAuth and /api/auth/me accept a token only if createSession
\* returned it and no more than 24 hours have passed since; every other
\* request is answered 401 and the protected handler does not run.
Authorized ==
  \E module \in Modules, token \in PresentedTokens :
    requireAuth(module, token) \/ Me(module, token)

C26_Step ==
  Authorized =>
    /\ authReq'.status \in {200, 401}
    /\ authReq'.ran <=> authReq'.status = 200
    /\ authReq'.status = 200 =>
         \E i \in issued : /\ i.token = authReq'.token
                            /\ now <= i.createdAt + SessionMs

C26_SessionExpiry == [][C26_Step]_vars

C26_Witness ==
  /\ authReq.pc = "done" /\ authReq.module = "sessions"
  /\ authReq.status = 401 /\ ~authReq.ran
  /\ \E i \in issued : /\ i.token = authReq.token /\ i.token.kind = "session"
                         /\ now > i.createdAt + SessionMs
  /\ [module |-> "sessions", token |-> authReq.token] \notin loggedOut
  /\ \A s \in sessions : s.sessionId # authReq.token.sessionId

\* C27: a broadcast is written only to channels whose initial-state task has
\* ended, so that no schedule_update or schedule_deleted comes before the
\* initial `state` message of a channel.
C27_Step ==
  (adminReq.pc # "done" /\ adminReq'.pc = "done" /\ adminReq'.broadcast) =>
    \A c \in adminReq'.written : conn[c].pc = "done"

C27_StateFirst == [][C27_Step]_vars

\* C28: once RadioProvider is unmounted its EventSource stays closed: no
\* connectSSE runs on its behalf any more.
C28_NoConnectAfterTeardown == ~rec.mounted => rec.es = "closed"

\* C29: once POST /api/auth/logout was made with a token, requireAuth and
\* /api/auth/me of that module answer every request presenting it with 401.
C29_Step ==
  (Authorized /\ [module |-> authReq'.module, token |-> authReq'.token] \in loggedOut)
    => authReq'.status = 401 /\ ~authReq'.ran

C29_LogoutInvalidates == [][C29_Step]_vars

\* C30: in a serverless process the app is created at most once,
\* initializeAppForServerless is started at most once, and no request is
\* dispatched before an initialisation has completed.
initOnce(l) == l.created <= 1 /\ l.started <= 1 /\ ~l.early

C30_InitOnce == initOnce(apiIndex) /\ initOnce(apiLazy)

====
